---- MODULE Spec2Model ----
(***************************************************************************)
(* system/bta/hfp/bta_hfp_api.cc: get_default_hfp_version().               *)
(*                                                                         *)
(* On __ANDROID__ builds the function holds a function-local               *)
(*   static const int version = Hfp::version().value_or(DEFAULT);          *)
(* whose initialisation is dynamic, so the compiler guards it: the first   *)
(* thread to reach the declaration runs the initialiser, threads arriving  *)
(* meanwhile wait, later ones skip it.  On other builds the function       *)
(* returns the constant.  Threads call the function repeatedly while the   *)
(* environment may rewrite the system property.                            *)
(***************************************************************************)
EXTENDS Integers, Sequences, FiniteSets

\* ---- bounds of the model
NumThreads == 2
MaxCalls == 3
MaxPropChanges == 2

Threads == 1..NumThreads

\* ---- constants of the program
HFP_VERSION_1_7 == 263

DEFAULT_BTA_HFP_VERSION == HFP_VERSION_1_7

\* The version encodings bta_hfp_api.h defines (0x0101 .. 0x0109).
KnownHfpVersions == {257, 261, 262, 263, 264, 265}

\* ---- the platform store: contents of the bluetooth.hfp.version property
Absent == [kind |-> "absent", val |-> 0]
Unparseable == [kind |-> "garbage", val |-> 0]
Unavailable == [kind |-> "unavailable", val |-> 0]
Override(v) == [kind |-> "int", val |-> v]

\* 264 is HFP 1.8; -1 is an integer that encodes no HFP version.
OverrideValues == {264, -1}

PropValues == {Absent, Unparseable, Unavailable} \cup {Override(v) : v \in OverrideValues}

\* std::optional<int>
nullopt == [has |-> FALSE, val |-> 0]
Some(v) == [has |-> TRUE, val |-> v]

\* android::sysprop::bluetooth::Hfp::version(): the property as an optional
\* integer, empty when the property is absent, unreadable or not an integer.
Hfp_version(p) == IF p.kind = "int" THEN Some(p.val) ELSE nullopt

\* A lookup that accepts only the defined HFP version encodings.
value_or_known(opt, d) == IF opt.has /\ opt.val \in KnownHfpVersions THEN opt.val ELSE d

\* A lookup whose fallback is the zero the static storage starts with.
value_or_zero(opt, d) == IF opt.has THEN opt.val ELSE 0

\* std::optional<int>::value_or
value_or(opt, d) == IF opt.has THEN opt.val ELSE d

VARIABLES
    android,      \* whether the build defines __ANDROID__
    prop,         \* the property in the platform store
    guard,        \* guard of the static local: "uninit", "pending", "done"
    version,      \* the static local (zero-initialised storage)
    pc,           \* where each thread is in get_default_hfp_version()
    tmp,          \* each thread's initialiser result, before it is stored
    calls,        \* calls each thread has started (MaxCalls in total)
    propChanges,  \* rewrites of the property so far
    queried,      \* history: the property as seen by each store query, in order
    rets,         \* history: each return, its value and the property then
    started       \* history: whether any call has begun

vars == <<android, prop, guard, version, pc, tmp, calls, propChanges, queried, rets, started>>

\* The number of queries of the platform store so far.
queries == Len(queried)

RECURSIVE SumCalls(_)
\* The calls made so far by the threads 1..n.
SumCalls(n) == IF n = 0 THEN 0 ELSE calls[n] + SumCalls(n - 1)

\* The calls made so far by all threads.
TotalCalls == SumCalls(NumThreads)

Init ==
    /\ android \in BOOLEAN
    /\ prop \in PropValues
    /\ guard = "uninit"
    /\ version = 0
    /\ pc = [t \in Threads |-> "idle"]
    /\ tmp = [t \in Threads |-> 0]
    /\ calls = [t \in Threads |-> 0]
    /\ propChanges = 0
    /\ queried = <<>>
    /\ rets = <<>>
    /\ started = FALSE

\* The environment sets, changes or removes the property.
SetProp(v) ==
    /\ propChanges < MaxPropChanges
    /\ v # prop
    /\ prop' = v
    /\ propChanges' = propChanges + 1
    /\ UNCHANGED <<android, guard, version, pc, tmp, calls, queried, rets, started>>

\* A thread enters get_default_hfp_version().
Call(t) ==
    /\ pc[t] = "idle"
    /\ TotalCalls < MaxCalls
    /\ pc' = [pc EXCEPT ![t] = "enter"]
    /\ calls' = [calls EXCEPT ![t] = @ + 1]
    /\ started' = TRUE
    /\ UNCHANGED <<android, prop, guard, version, tmp, propChanges, queried, rets>>

\* A static local without the guard: every thread that finds it not yet
\* initialised runs the initialiser.
GuardAcquireRacy(t) ==
    /\ android
    /\ pc[t] = "enter"
    /\ pc' = [pc EXCEPT ![t] = IF guard = "done" THEN "return" ELSE "init"]
    /\ guard' = IF guard = "done" THEN "done" ELSE "pending"
    /\ UNCHANGED <<android, prop, version, tmp, calls, propChanges, queried, rets, started>>

\* Control reaches the declaration of the static local: skip the initialiser
\* when it has run, run it when nobody has, wait when another thread is in it.
GuardAcquire(t) ==
    /\ android
    /\ pc[t] = "enter"
    /\ \/ /\ guard = "done"
          /\ pc' = [pc EXCEPT ![t] = "return"]
          /\ guard' = guard
       \/ /\ guard = "uninit"
          /\ pc' = [pc EXCEPT ![t] = "init"]
          /\ guard' = "pending"
       \/ /\ guard = "pending"
          /\ pc' = [pc EXCEPT ![t] = "wait"]
          /\ guard' = guard
    /\ UNCHANGED <<android, prop, version, tmp, calls, propChanges, queried, rets, started>>

\* The initialiser: Hfp::version().value_or(DEFAULT_BTA_HFP_VERSION).
Query(t) ==
    /\ pc[t] = "init"
    /\ tmp' = [tmp EXCEPT ![t] = value_or(Hfp_version(prop), DEFAULT_BTA_HFP_VERSION)]
    /\ queried' = Append(queried, prop)
    /\ pc' = [pc EXCEPT ![t] = "release"]
    /\ UNCHANGED <<android, prop, guard, version, calls, propChanges, rets, started>>

\* An initialiser that stores the value and leaves the guard taken.
GuardReleaseStuck(t) ==
    /\ pc[t] = "release"
    /\ version' = tmp[t]
    /\ guard' = "pending"
    /\ tmp' = [tmp EXCEPT ![t] = 0]
    /\ pc' = [pc EXCEPT ![t] = "return"]
    /\ UNCHANGED <<android, prop, calls, propChanges, queried, rets, started>>

\* The initialiser's value is stored and the guard marked complete.
GuardRelease(t) ==
    /\ pc[t] = "release"
    /\ version' = tmp[t]
    /\ guard' = "done"
    /\ tmp' = [tmp EXCEPT ![t] = 0]
    /\ pc' = [pc EXCEPT ![t] = "return"]
    /\ UNCHANGED <<android, prop, calls, propChanges, queried, rets, started>>

\* A thread that found the initialisation in progress resumes when it is done.
GuardWait(t) ==
    /\ pc[t] = "wait"
    /\ guard = "done"
    /\ pc' = [pc EXCEPT ![t] = "return"]
    /\ UNCHANGED <<android, prop, guard, version, tmp, calls, propChanges, queried, rets, started>>

\* A return that reads the property again instead of the cached value.
ReturnReread(t) ==
    /\ pc[t] = "return"
    /\ rets' = Append(rets, [val |-> value_or(Hfp_version(prop), DEFAULT_BTA_HFP_VERSION),
                              prop |-> prop])
    /\ queried' = Append(queried, prop)
    /\ pc' = [pc EXCEPT ![t] = "idle"]
    /\ UNCHANGED <<android, prop, guard, version, tmp, calls, propChanges, started>>

\* return version;
Return(t) ==
    /\ pc[t] = "return"
    /\ rets' = Append(rets, [val |-> version, prop |-> prop])
    /\ pc' = [pc EXCEPT ![t] = "idle"]
    /\ UNCHANGED <<android, prop, guard, version, tmp, calls, propChanges, queried, started>>

\* The other branch taking the store's value, as if the #else were dropped.
ReturnDefaultQuerying(t) ==
    /\ ~android
    /\ pc[t] = "enter"
    /\ rets' = Append(rets, [val |-> value_or(Hfp_version(prop), DEFAULT_BTA_HFP_VERSION),
                              prop |-> prop])
    /\ queried' = Append(queried, prop)
    /\ pc' = [pc EXCEPT ![t] = "idle"]
    /\ UNCHANGED <<android, prop, guard, version, tmp, calls, propChanges, started>>

\* #else branch: return DEFAULT_BTA_HFP_VERSION;
ReturnDefault(t) ==
    /\ ~android
    /\ pc[t] = "enter"
    /\ rets' = Append(rets, [val |-> DEFAULT_BTA_HFP_VERSION, prop |-> prop])
    /\ pc' = [pc EXCEPT ![t] = "idle"]
    /\ UNCHANGED <<android, prop, guard, version, tmp, calls, propChanges, queried, started>>

\* The steps of a call once it has been made.
Step(t) ==
    \/ GuardAcquire(t)
    \/ Query(t)
    \/ GuardRelease(t)
    \/ GuardWait(t)
    \/ Return(t)
    \/ ReturnDefault(t)

Next ==
    \/ \E v \in PropValues : SetProp(v)
    \/ \E t \in Threads : Call(t)
    \/ \E t \in Threads : GuardAcquire(t)
    \/ \E t \in Threads : Query(t)
    \/ \E t \in Threads : GuardRelease(t)
    \/ \E t \in Threads : GuardWait(t)
    \/ \E t \in Threads : Return(t)
    \/ \E t \in Threads : ReturnDefault(t)

Spec == Init /\ [][Next]_vars

\* Every thread inside the function is scheduled again; the store query completes.
FairSpec == Spec /\ \A t \in Threads : WF_vars(Step(t))

\* ---- helpers for the properties

\* The values returned so far.
Returned == {rets[i].val : i \in 1..Len(rets)}

\* The value the one query resolved to.
Resolved == value_or(Hfp_version(queried[1]), DEFAULT_BTA_HFP_VERSION)

\* ---- C1
\* C1: with the configuration store, however the threads' first calls
\* interleave, the store is queried at most once, exactly once as soon as any
\* call has returned, and every return carries the one resolved value.
C1_SingleQuerySingleValue ==
    android =>
        /\ queries <= 1
        /\ Cardinality(Returned) <= 1
        /\ (rets # <<>> => queries = 1 /\ Returned = {version})

\* Two threads raced on the first call: one has made the query and holds the
\* guard, the other waits on it.
C1_Witness ==
    /\ android
    /\ queries = 1
    /\ \E t, u \in Threads : t # u /\ pc[u] = "wait" /\ pc[t] = "release"
                             /\ calls[t] = 1 /\ calls[u] = 1

\* ---- C2
\* C2: every call returns what the first call returned, however many calls
\* there are and whatever happens to the property after the first call.
C2_Idempotent ==
    \A i \in 1..Len(rets) : rets[i].val = rets[1].val

\* A later call returned the first call's value although the property had a
\* different content by then than at the first return.
C2_Witness ==
    /\ android
    /\ Len(rets) >= 2
    /\ rets[Len(rets)].prop # rets[1].prop
    /\ rets[Len(rets)].prop # queried[1]
    /\ rets[Len(rets)].val = rets[1].val

\* ---- C3
\* C3: with the configuration store, when the property holds a valid override
\* V at the query, every call (the first and all after it) returns V.
C3_OverrideReturned ==
    (android /\ queried # <<>> /\ queried[1].kind = "int") =>
        \A i \in 1..Len(rets) : rets[i].val = queried[1].val

\* A second call by the same thread returned the override.
C3_Witness ==
    /\ android
    /\ queried # <<>> /\ queried[1].kind = "int"
    /\ Len(rets) >= 2
    /\ \E t \in Threads : calls[t] = 2 /\ pc[t] = "idle"
    /\ rets[Len(rets)].val = queried[1].val

\* ---- C4
\* C4: with the configuration store, when the lookup yields no value (absent,
\* unavailable, unparseable) every call returns HFP_VERSION_1_7; and every
\* return, on either platform, is an integer.
C4_FailOpenToDefault ==
    /\ (android /\ queried # <<>> /\ ~Hfp_version(queried[1]).has) =>
           \A i \in 1..Len(rets) : rets[i].val = HFP_VERSION_1_7
    /\ \A i \in 1..Len(rets) : rets[i].val \in Int

\* A call returned the default after a query that found an unparseable value.
C4_Witness ==
    /\ android
    /\ queried # <<>> /\ queried[1].kind = "garbage"
    /\ rets # <<>> /\ rets[1].val = HFP_VERSION_1_7

\* ---- C5
\* C5: without the configuration store every call returns
\* DEFAULT_BTA_HFP_VERSION, whatever the property is and whatever came before.
C5_NoStoreAlwaysDefault ==
    ~android => \A i \in 1..Len(rets) : rets[i].val = DEFAULT_BTA_HFP_VERSION

\* Several calls returned the default while a valid override was in the store.
C5_Witness ==
    /\ ~android
    /\ Len(rets) >= 2
    /\ rets[1].prop.kind = "int" /\ rets[1].prop.val # DEFAULT_BTA_HFP_VERSION
    /\ rets[Len(rets)].prop # rets[1].prop
    /\ rets[Len(rets)].val = DEFAULT_BTA_HFP_VERSION

\* ---- C6
\* C6: without the configuration store no call queries the store or writes
\* the cache: the query count stays zero and guard and cached value stay as
\* they were at start.
C6_NoStoreNoQuery ==
    ~android => (queries = 0 /\ guard = "uninit" /\ version = 0
                 /\ \A t \in Threads : tmp[t] = 0)

\* All the calls have been made and have returned on the platform without
\* the store, with a valid override in the store.
C6_Witness ==
    /\ ~android
    /\ Len(rets) = MaxCalls
    /\ prop.kind = "int"

\* ---- C7
\* C7: the store is queried at most once; once the cache is populated no
\* step changes the cached value, the guard or the number of queries.
C7_ReadOnceImmutable ==
    /\ [](queries <= 1)
    /\ [][guard = "done" => (version' = version /\ guard' = guard /\ queried' = queried)]_vars

\* A call that began after the cache was populated has returned, with the
\* property rewritten in between.
C7_Witness ==
    /\ android
    /\ guard = "done"
    /\ queries = 1
    /\ Len(rets) >= 2
    /\ prop # queried[1]
    /\ rets[Len(rets)].prop # queried[1]

\* ---- C8
\* C8: with the configuration store, the store is not queried before the
\* first call is made, and every return is the value the property resolved to
\* at the moment of the one query: the override then set, else the default.
C8_LazyFirstCallValue ==
    android =>
        /\ (~started => queries = 0 /\ guard = "uninit")
        /\ (queries > 0 => started)
        /\ \A i \in 1..Len(rets) : queries >= 1 /\ rets[i].val = Resolved

\* The property was rewritten before the first call and again after it: the
\* first value is honoured, the later one is not.
C8_Witness ==
    /\ android
    /\ propChanges = 2
    /\ queried # <<>> /\ queried[1].kind = "int"
    /\ Len(rets) >= 2
    /\ rets[1].prop = queried[1]
    /\ rets[2].prop.kind = "int" /\ rets[2].prop # queried[1]
    /\ rets[2].val = queried[1].val

\* ---- C9
\* C9: every return is the default constant or exactly the integer the query
\* saw; an override that encodes no HFP version is returned unchanged.
C9_NoRangeCheck ==
    android =>
        \A i \in 1..Len(rets) :
            /\ queried # <<>>
            /\ rets[i].val \in {DEFAULT_BTA_HFP_VERSION} \cup
                  (IF queried[1].kind = "int" THEN {queried[1].val} ELSE {})
            /\ (queried[1].kind = "int" /\ queried[1].val \notin KnownHfpVersions)
                   => rets[i].val = queried[1].val

\* A call returned an integer that is no defined HFP version.
C9_Witness ==
    /\ android
    /\ rets # <<>>
    /\ rets[1].val \notin KnownHfpVersions
    /\ rets[1].val = -1

\* ---- C10
\* C10: under fair scheduling every call that has been made returns, also a
\* call made while another thread's initialisation is in progress.
C10_EveryCallReturns ==
    \A t \in Threads : (pc[t] # "idle") ~> (pc[t] = "idle")

\* The initialisation has finished while another thread waits on the guard,
\* and the initialising thread has returned.
C10_Witness ==
    /\ android
    /\ guard = "done"
    /\ \E t, u \in Threads : t # u /\ pc[u] = "wait" /\ pc[t] = "idle" /\ calls[t] = 1
    /\ Len(rets) = 1

====
